---- MODULE Spec2Model ----
(***************************************************************************)
(* Job-lifecycle logging and live-tail streaming of app/server.py.         *)
(*                                                                         *)
(* Execution contexts:                                                     *)
(*   - the asyncio event loop, which runs the `async def` handlers         *)
(*     generate_text / generate_image.  A coroutine keeps the loop until   *)
(*     it awaits something that suspends; generate_text never awaits,      *)
(*     generate_image awaits only image.read().                            *)
(*   - one daemon thread per job running _heartbeat.                       *)
(*   - one worker thread per log subscription: stream_logs is a plain      *)
(*     `def` and event_stream a plain generator, so they run in the        *)
(*     thread pool, but a request is dispatched, and a yielded event is    *)
(*     sent and the next one asked for, only by the event loop.            *)
(*                                                                         *)
(* A log file is the sequence of characters written to it; characters are  *)
(* abstracted to tokens (a word, a blank, a line feed).  Wall-clock values *)
(* (timestamps, elapsed seconds) are one fixed token each.                 *)
(***************************************************************************)
EXTENDS Naturals, Sequences, FiniteSets, TLC

\* ------------------------------------------------------------------ bounds
\* Heartbeat lines one heartbeat thread may write.
MaxBeats == 2
\* The same, in the specifications that also run subscriptions.
MaxStreamBeats == 1
\* Polls of a subscription that are counted once its consumer has gone away.
MaxPolls == 2

\* ------------------------------------------------------------- identifiers
\* The uuid4 values of the jobs: distinct strings.
Jobs == {"j1", "j2"}
\* A string that uuid4 never returns: a caller asking for a log that is not there.
Bogus == "bogus"
Ids == Jobs \cup {Bogus}
\* Log subscriptions (HTTP connections to /jobs/{job_id}/logs).
Subs == {1, 2}
Kinds == {"text", "image"}

\* ------------------------------------------------------------------ tokens
SP == " "
NL == "LF"
TS == "[ts]"
Whitespace == {SP, NL}
\* The content of a path that does not exist (no write produces it).
NoFile == <<"absent">>
NoJob == "none"

\* str(e) of an exception raised by a collaborator: empty (raise RuntimeError())
\* or not.
ExcMsgs == {<<>>, <<"boom">>}

\* ------------------------------------------------------- text of the lines
\* f"START text generation: ..." / f"START image generation: ..."
StartMsg(k) == IF k = "text" THEN <<"START", SP, "text">> ELSE <<"START", SP, "image">>
InitMsg == <<"WorldGen", SP, "initialized">>
GenMsg == <<"World", SP, "generated">>
\* f"DONE in {time.time()-t0:.1f}s -> {path}"
DoneMsg == <<"DONE", SP, "->", SP, "path">>
\* (The unknown-result path with its return missing: it runs on into the DONE
\* line.)
UnknownThenDone == <<"ERROR:", SP, "Unknown", NL, TS, SP>> \o DoneMsg
\* "ERROR: Unknown result type; cannot save .ply"
UnknownMsg == <<"ERROR:", SP, "Unknown">>
\* f"ERROR: Open3D import failed: {e}"
ImportMsg(e) == <<"ERROR:", SP, "Open3D">> \o <<SP>> \o e
\* traceback.format_exc(): the header, the frames, then "Type: message" (or the
\* bare "Type" when str(e) is empty), each ended by a line feed.
FormatExc(e) ==
    <<"Traceback", NL, "frame", NL, "Exc">>
        \o (IF e = <<>> THEN <<>> ELSE <<":", SP>> \o e) \o <<NL>>
\* f"ERROR: {e}\n{traceback.format_exc()}"
ExceptMsg(e) == <<"ERROR:", SP>> \o e \o <<NL>> \o FormatExc(e)
\* f"heartbeat: running, elapsed=..." + (f", cuda_mem(MB)={mem}" if mem else "")
HeartbeatMsg(mem) == <<"heartbeat">> \o (IF mem THEN <<",", SP, "cuda_mem">> ELSE <<>>)

\* What one _log call writes: f"[{ts}] {msg}\n".
LogText(msg) == <<TS, SP>> \o msg \o <<NL>>

\* (Every identifier given the one file.)
OnePath(id) == "j1"
\* _log_path: os.path.join(LOG_DIR, f"{job_id}.log"), a file of its own for every
\* identifier; the files are named here by the identifier.
LogPath(id) == id

\* _log: open(path, "a") creates the file when it is missing and positions every
\* write at the end; the text is buffered and reaches the file in one write(2)
\* when the `with` block closes the file.
\* (The same call had the file been opened with "w".)
TruncateOpenMode(content, text) == text
WriteLog(content, text) == IF content = NoFile THEN text ELSE content \o text

\* os.path.exists(_log_path(job_id))
\* (The test with its sense lost: every path is taken to exist.)
ExistsAlways(content) == TRUE
LogExists(content) == content # NoFile

\* ------------------------------------------------------------ reading side
\* Offset (1-based) of the first line feed after position pos, 0 when none.
RECURSIVE NextNL(_, _)
NextNL(content, pos) ==
    IF pos >= Len(content) THEN 0
    ELSE IF content[pos + 1] = NL THEN pos + 1
    ELSE NextNL(content, pos + 1)

\* f.readline() at offset pos: the characters up to and including the next line
\* feed, the rest of the file when there is none, "" at end of file.
ReadLine(content, pos) ==
    IF pos >= Len(content) THEN <<>>
    ELSE LET n == NextNL(content, pos)
         IN  SubSeq(content, pos + 1, IF n = 0 THEN Len(content) ELSE n)

\* str.rstrip(): trailing whitespace removed, blanks as well as the line feed.
RECURSIVE Rstrip(_)
Rstrip(line) ==
    IF line = <<>> THEN <<>>
    ELSE IF line[Len(line)] \in Whitespace THEN Rstrip(SubSeq(line, 1, Len(line) - 1))
    ELSE line

\* The event yielded for a line: f"data: {line.rstrip()}\n\n".
Frame(line) == <<"data:", SP>> \o Rstrip(line) \o <<NL, NL>>

\* The lines of a file, each with its line feed.
RECURSIVE LinesFrom(_, _)
LinesFrom(content, pos) ==
    IF pos >= Len(content) THEN <<>>
    ELSE LET l == ReadLine(content, pos)
         IN  <<l>> \o LinesFrom(content, pos + Len(l))
Lines(content) == IF content = NoFile THEN <<>> ELSE LinesFrom(content, 0)

\* --------------------------------------------------------------- the state
VARIABLES
    loop,       \* the handler coroutine the event loop is running: a job, or NoJob
    pc,         \* pc[j]: where the handler of job j stands
    kind,       \* kind[j]: "text" (generate_text) or "image" (generate_image)
    exc,        \* exc[j]: str(e) of the exception the handler is handling
    res,        \* res[j]: "mesh" or "splat", the file the handler has saved
    outcome,    \* outcome[j]: the response of the handler, once it has returned
    stopEvt,    \* stopEvt[j]: hb_stop.is_set(); "unset" before hb_stop exists
    hbpc,       \* hbpc[j]: where the _heartbeat thread of job j stands
    file,       \* file[id]: content of LOG_DIR/<id>.log, or NoFile
    wrote,      \* wrote[j].run, wrote[j].hb: the texts each writer has appended
    stops,      \* stops[j]: calls of hb_stop.set() so far
    lateBeats,  \* lateBeats[j]: heartbeat lines written after hb_stop was set
    snapFails,  \* snapFails[j]: ticks of the heartbeat whose cuda snapshot raised
    spc,        \* spc[s]: where subscription s stands
    sid,        \* sid[s]: the job_id of the request
    cursor,     \* cursor[s]: file position of f in event_stream
    where,      \* where[s]: the local `where` of event_stream
    got,        \* got[s]: the events event_stream has yielded
    connected,  \* connected[s]: the consumer still holds the connection
    atOpen,     \* atOpen[s]: content of the log when the subscription opened it
    appended,   \* appended[s]: completed appends for sid[s] when exists() was tested
    polls       \* polls[s]: polls made after the consumer went away

jobVars == <<pc, kind, exc, res, outcome>>
hbVars == <<hbpc, lateBeats, snapFails>>
logVars == <<file, wrote>>
subVars == <<spc, sid, cursor, where, got, connected, atOpen, appended, polls>>
vars == <<loop, jobVars, stopEvt, stops, hbVars, logVars, subVars>>

Init ==
    /\ loop = NoJob
    /\ pc = [j \in Jobs |-> "idle"]
    /\ kind = [j \in Jobs |-> "text"]
    /\ exc = [j \in Jobs |-> <<>>]
    /\ res = [j \in Jobs |-> "none"]
    /\ outcome = [j \in Jobs |-> [status |-> 0, job_id |-> NoJob, type |-> "none"]]
    /\ stopEvt = [j \in Jobs |-> "unset"]
    /\ hbpc = [j \in Jobs |-> "none"]
    /\ file = [i \in Ids |-> NoFile]
    /\ wrote = [j \in Jobs |-> [run |-> <<>>, hb |-> <<>>]]
    /\ stops = [j \in Jobs |-> 0]
    /\ lateBeats = [j \in Jobs |-> 0]
    /\ snapFails = [j \in Jobs |-> 0]
    /\ spc = [s \in Subs |-> "idle"]
    /\ sid = [s \in Subs |-> Bogus]
    /\ cursor = [s \in Subs |-> 0]
    /\ where = [s \in Subs |-> 0]
    /\ got = [s \in Subs |-> <<>>]
    /\ connected = [s \in Subs |-> TRUE]
    /\ atOpen = [s \in Subs |-> <<>>]
    /\ appended = [s \in Subs |-> 0]
    /\ polls = [s \in Subs |-> 0]

\* ------------------------------------------------------------ job handlers
\* _log(uid, msg) called by the handler of job j.
RunnerLog(j, msg) ==
    /\ file' = [file EXCEPT ![LogPath(j)] = WriteLog(@, LogText(msg))]
    /\ wrote' = [wrote EXCEPT ![j].run = Append(@, LogText(msg))]

\* uid if 'uid' in locals() else None: uid is bound by the first statement of the
\* try block, and uuid.uuid4() does not raise.
ResponseJobId(j) == j

\* The handler returns: the response goes out and the coroutine leaves the loop.
Return(j, status, type) ==
    /\ pc' = [pc EXCEPT ![j] = "returned"]
    /\ outcome' = [outcome EXCEPT ![j] =
                      [status |-> status, job_id |-> ResponseJobId(j), type |-> type]]
    /\ loop' = NoJob

\* A collaborator raises: control goes to `except Exception as e`.
Raise(j, e) ==
    /\ pc' = [pc EXCEPT ![j] = "except"]
    /\ exc' = [exc EXCEPT ![j] = e]

\* (A handler that starts the heartbeat thread first.)
ThreadFirst == "hb_start"
\* After uid is bound the handler's next statement is _log(uid, "START ..."),
\* ahead of hb_stop, t0 and the thread.
AfterUid == "start_open"

\* A request for /generate/text or /generate/image is taken up by the event loop;
\* uid = str(uuid.uuid4()).
Begin(j, k) ==
    /\ loop = NoJob
    /\ pc[j] = "idle"
    /\ pc' = [pc EXCEPT ![j] = AfterUid]
    /\ kind' = [kind EXCEPT ![j] = k]
    /\ loop' = j
    /\ UNCHANGED <<exc, res, outcome, stopEvt, stops, hbVars, logVars, subVars>>

\* The first _log of the job, up to open(path, "a"): the file comes to exist, empty.
StartOpen(j) ==
    /\ loop = j
    /\ pc[j] = "start_open"
    /\ file' = [file EXCEPT ![LogPath(j)] = <<>>]
    /\ pc' = [pc EXCEPT ![j] = "start_write"]
    /\ UNCHANGED <<loop, kind, exc, res, outcome, stopEvt, stops, hbVars, wrote, subVars>>

\* The rest of that _log: the START line is written (and printed to stdout).
StartWrite(j) ==
    /\ loop = j
    /\ pc[j] = "start_write"
    /\ RunnerLog(j, StartMsg(kind[j]))
    /\ pc' = [pc EXCEPT ![j] = "hb_start"]
    /\ UNCHANGED <<loop, kind, exc, res, outcome, stopEvt, stops, hbVars, subVars>>

\* hb_stop = threading.Event(); t0 = time.time(); hb_thr.start()
HbStart(j) ==
    /\ loop = j
    /\ pc[j] = "hb_start"
    /\ stopEvt' = [stopEvt EXCEPT ![j] = "clear"]
    /\ hbpc' = [hbpc EXCEPT ![j] = "check"]
    /\ pc' = [pc EXCEPT ![j] = IF kind[j] = "image" THEN "upload" ELSE "init"]
    /\ UNCHANGED <<loop, kind, exc, res, outcome, stops, lateBeats, snapFails, logVars, subVars>>

\* generate_image: contents = await image.read().  A spooled upload still in
\* memory is read without suspending; one rolled over to disk is read in the
\* thread pool, and the coroutine gives up the event loop until it is done.
Upload(j) ==
    /\ loop = j
    /\ pc[j] = "upload"
    /\ \/ /\ pc' = [pc EXCEPT ![j] = "decode"]
          /\ UNCHANGED loop
       \/ /\ pc' = [pc EXCEPT ![j] = "upload_wait"]
          /\ loop' = NoJob
    /\ UNCHANGED <<kind, exc, res, outcome, stopEvt, stops, hbVars, logVars, subVars>>

\* The read is done and the event loop resumes the coroutine.
UploadResume(j) ==
    /\ loop = NoJob
    /\ pc[j] = "upload_wait"
    /\ loop' = j
    /\ pc' = [pc EXCEPT ![j] = "decode"]
    /\ UNCHANGED <<kind, exc, res, outcome, stopEvt, stops, hbVars, logVars, subVars>>

\* pil = Image.open(io.BytesIO(contents)).convert("RGB")
Decode(j) ==
    /\ loop = j
    /\ pc[j] = "decode"
    /\ \/ /\ pc' = [pc EXCEPT ![j] = "init"]
          /\ UNCHANGED exc
       \/ \E e \in ExcMsgs : Raise(j, e)
    /\ UNCHANGED <<loop, kind, res, outcome, stopEvt, stops, hbVars, logVars, subVars>>

\* worldgen = WorldGen(...); _log(uid, "WorldGen initialized")
InitWorldGen(j) ==
    /\ loop = j
    /\ pc[j] = "init"
    /\ \/ /\ RunnerLog(j, InitMsg)
          /\ pc' = [pc EXCEPT ![j] = "generate"]
          /\ UNCHANGED exc
       \/ /\ \E e \in ExcMsgs : Raise(j, e)
          /\ UNCHANGED logVars
    /\ UNCHANGED <<loop, kind, res, outcome, stopEvt, stops, hbVars, subVars>>

\* result = worldgen.generate_world(...); _log(uid, "World generated; saving output")
Generate(j) ==
    /\ loop = j
    /\ pc[j] = "generate"
    /\ \/ /\ RunnerLog(j, GenMsg)
          /\ pc' = [pc EXCEPT ![j] = "save"]
          /\ UNCHANGED exc
       \/ /\ \E e \in ExcMsgs : Raise(j, e)
          /\ UNCHANGED logVars
    /\ UNCHANGED <<loop, kind, res, outcome, stopEvt, stops, hbVars, subVars>>

\* The saving step, for return_mesh = mesh:
\*   mesh:  import open3d (may fail), then o3d.io.write_triangle_mesh(...)
\*   splat: result.save(...); on AttributeError result.to_ply() when the result
\*          has one, else "Unknown result type"
\* Any other exception goes to the outer `except Exception`.
Save(j) ==
    /\ loop = j
    /\ pc[j] = "save"
    /\ \E mesh \in BOOLEAN :
        \/ /\ mesh
           /\ \E e \in ExcMsgs : exc' = [exc EXCEPT ![j] = e]
           /\ pc' = [pc EXCEPT ![j] = "import_failed"]
           /\ UNCHANGED res
        \/ /\ ~mesh
           /\ pc' = [pc EXCEPT ![j] = "unknown_result"]
           /\ UNCHANGED <<exc, res>>
        \/ /\ pc' = [pc EXCEPT ![j] = "saved"]
           /\ res' = [res EXCEPT ![j] = IF mesh THEN "mesh" ELSE "splat"]
           /\ UNCHANGED exc
        \/ /\ \E e \in ExcMsgs : Raise(j, e)
           /\ UNCHANGED res
    /\ UNCHANGED <<loop, kind, outcome, stopEvt, stops, hbVars, logVars, subVars>>

\* (An exit path that leaves hb_stop alone.)
StopForgotten(j) == UNCHANGED <<stopEvt, stops>>
\* hb_stop.set()
SetStop(j) ==
    /\ stopEvt' = [stopEvt EXCEPT ![j] = "set"]
    /\ stops' = [stops EXCEPT ![j] = @ + 1]

\* except Exception as e (import open3d): hb_stop.set()
StopOnImportError(j) ==
    /\ loop = j
    /\ pc[j] = "import_failed"
    /\ SetStop(j)
    /\ pc' = [pc EXCEPT ![j] = "import_failed_log"]
    /\ UNCHANGED <<loop, kind, exc, res, outcome, hbVars, logVars, subVars>>

\* _log(uid, f"ERROR: Open3D import failed: {e}"); return JSONResponse(500, ...)
LogImportError(j) ==
    /\ loop = j
    /\ pc[j] = "import_failed_log"
    /\ RunnerLog(j, ImportMsg(exc[j]))
    /\ Return(j, 500, "error")
    /\ UNCHANGED <<kind, exc, res, stopEvt, stops, hbVars, subVars>>

\* (no to_ply): hb_stop.set()
StopOnUnknown(j) ==
    /\ loop = j
    /\ pc[j] = "unknown_result"
    /\ SetStop(j)
    /\ pc' = [pc EXCEPT ![j] = "unknown_result_log"]
    /\ UNCHANGED <<loop, kind, exc, res, outcome, hbVars, logVars, subVars>>

\* _log(uid, "ERROR: Unknown result type; cannot save .ply"); return JSONResponse(500, ...)
LogUnknown(j) ==
    /\ loop = j
    /\ pc[j] = "unknown_result_log"
    /\ RunnerLog(j, UnknownMsg)
    /\ Return(j, 500, "error")
    /\ UNCHANGED <<kind, exc, res, stopEvt, stops, hbVars, subVars>>

\* (output saved): hb_stop.set()
StopOnDone(j) ==
    /\ loop = j
    /\ pc[j] = "saved"
    /\ SetStop(j)
    /\ pc' = [pc EXCEPT ![j] = "saved_log"]
    /\ UNCHANGED <<loop, kind, exc, res, outcome, hbVars, logVars, subVars>>

\* _log(uid, f"DONE in ... -> {path}"); return {"type": ..., "path": ..., "job_id": uid}
LogDone(j) ==
    /\ loop = j
    /\ pc[j] = "saved_log"
    /\ RunnerLog(j, DoneMsg)
    /\ Return(j, 200, res[j])
    /\ UNCHANGED <<kind, exc, res, stopEvt, stops, hbVars, subVars>>

\* (An except clause that returns the response and logs nothing.)
SilentExceptText(e) == <<>>
\* What the outer except clause logs.
ExceptText(e) == LogText(ExceptMsg(e))

\* except Exception as e: _log(jid, f"ERROR: {e}\n{traceback.format_exc()}");
\* return JSONResponse(500, {"error": str(e), "job_id": uid}).  hb_stop is not
\* touched here.
Except(j) ==
    /\ loop = j
    /\ pc[j] = "except"
    /\ file' = [file EXCEPT ![LogPath(j)] = WriteLog(@, ExceptText(exc[j]))]
    /\ wrote' = [wrote EXCEPT ![j].run = Append(@, ExceptText(exc[j]))]
    /\ Return(j, 500, "error")
    /\ UNCHANGED <<kind, exc, res, stopEvt, stops, hbVars, subVars>>

JobStep(j) ==
    \/ \E k \in Kinds : Begin(j, k)
    \/ StartOpen(j)
    \/ StartWrite(j)
    \/ HbStart(j)
    \/ Upload(j)
    \/ UploadResume(j)
    \/ Decode(j)
    \/ InitWorldGen(j)
    \/ Generate(j)
    \/ Save(j)
    \/ StopOnImportError(j)
    \/ LogImportError(j)
    \/ StopOnUnknown(j)
    \/ LogUnknown(j)
    \/ StopOnDone(j)
    \/ LogDone(j)
    \/ Except(j)

\* ------------------------------------------------------- heartbeat thread
\* (A loop test that never sees the event.)
StopIgnored(ev) == FALSE
\* stop_evt.is_set()
IsSet(ev) == ev = "set"

\* stop_evt.wait(interval) has returned, on the event or on the timeout, and
\* `while not stop_evt.is_set()` is tested.
HbCheck(j, cap) ==
    /\ hbpc[j] = "check"
    /\ \/ /\ IsSet(stopEvt[j])
          /\ hbpc' = [hbpc EXCEPT ![j] = "exit"]
       \/ /\ ~IsSet(stopEvt[j])
          /\ Len(wrote[j].hb) < cap
          /\ hbpc' = [hbpc EXCEPT ![j] = "tick"]
    /\ UNCHANGED <<loop, jobVars, stopEvt, stops, lateBeats, snapFails, logVars, subVars>>

\* What the cuda snapshot of a tick comes to: "none" when
\* torch.cuda.is_available() is False, "ok" when memory_allocated and
\* memory_reserved return, "raised" when one of them raises.
Snapshots == {"none", "ok", "raised"}
NoFault == {"none", "ok"}
NoCuda == {"none"}

\* mem is the dict of the two figures, and else None: `if mem` holds for the dict.
Mem(snap) == snap = "ok"

\* (A snapshot whose exception is not caught.)
SnapshotUnhandled(snap) == snap # "raised"
\* try: mem = {...} / except Exception: mem = None -- every exception of the
\* snapshot is caught and the tick goes on.
SnapshotHandled(snap) == TRUE

\* One tick: elapsed, the cuda snapshot, _log(job_id, f"heartbeat: ..."), and
\* stop_evt.wait(interval) is entered.  snapshots: the outcomes the snapshot can
\* have on this host.  An exception that leaves _heartbeat ends the thread.
HbLog(j, snapshots) ==
    /\ hbpc[j] = "tick"
    /\ \E snap \in snapshots :
          /\ snapFails' = [snapFails EXCEPT ![j] = IF snap = "raised" THEN @ + 1 ELSE @]
          /\ IF SnapshotHandled(snap)
             THEN /\ file' = [file EXCEPT ![LogPath(j)] = WriteLog(@, LogText(HeartbeatMsg(Mem(snap))))]
                  /\ wrote' = [wrote EXCEPT ![j].hb = Append(@, LogText(HeartbeatMsg(Mem(snap))))]
                  /\ lateBeats' = [lateBeats EXCEPT ![j] = IF stopEvt[j] = "set" THEN @ + 1 ELSE @]
                  /\ hbpc' = [hbpc EXCEPT ![j] = "check"]
             ELSE /\ hbpc' = [hbpc EXCEPT ![j] = "dead"]
                  /\ UNCHANGED <<file, wrote, lateBeats>>
    /\ UNCHANGED <<loop, jobVars, stopEvt, stops, subVars>>

HbStep(j, cap, snapshots) == HbCheck(j, cap) \/ HbLog(j, snapshots)

\* ---------------------------------------------------------- subscriptions
\* The identifiers a caller can name: uuid4 values cannot be guessed, and a job's
\* uid leaves the handler first through the print at the end of its first _log,
\* after the START line is in the file.  Any other string is a log never written.
KnownIds == {j \in Jobs : file[j] # NoFile /\ file[j] # <<>>}

\* Completed _log calls for an identifier.
Appends(id) == IF id \in Jobs THEN Len(wrote[id].run) + Len(wrote[id].hb) ELSE 0

Streaming == {"replay", "follow", "yield_replay", "yield_follow"}

\* A caller sends GET /jobs/{job_id}/logs.
Request(s, id) ==
    /\ spc[s] = "idle"
    /\ id \in KnownIds \cup {Bogus}
    /\ spc' = [spc EXCEPT ![s] = "requested"]
    /\ sid' = [sid EXCEPT ![s] = id]
    /\ UNCHANGED <<loop, jobVars, stopEvt, stops, hbVars, logVars,
                   cursor, where, got, connected, atOpen, appended, polls>>

\* The event loop takes the request up and stream_logs runs: 404 when the path
\* does not exist, else the StreamingResponse is started and event_stream opens
\* the file.
Dispatch(s) ==
    /\ loop = NoJob
    /\ spc[s] = "requested"
    /\ appended' = [appended EXCEPT ![s] = Appends(sid[s])]
    /\ IF LogExists(file[LogPath(sid[s])])
       THEN /\ spc' = [spc EXCEPT ![s] = "replay"]
            /\ atOpen' = [atOpen EXCEPT ![s] = file[LogPath(sid[s])]]
            /\ cursor' = [cursor EXCEPT ![s] = 0]
       ELSE /\ spc' = [spc EXCEPT ![s] = "notfound"]
            /\ UNCHANGED <<atOpen, cursor>>
    /\ UNCHANGED <<loop, jobVars, stopEvt, stops, hbVars, logVars,
                   sid, where, got, connected, polls>>

\* (One file position shared by every subscription.)
SharedPosition(cur, s, n) == [t \in Subs |-> cur[s] + n]
\* Reading n characters moves the position of the subscription's own file object.
Advance(cur, s, n) == [cur EXCEPT ![s] = @ + n]

\* for line in f: yield f"data: {line.rstrip()}\n\n" -- one step of the loop.
ReplayRead(s) ==
    /\ spc[s] = "replay"
    /\ LET line == ReadLine(file[LogPath(sid[s])], cursor[s])
       IN  IF line = <<>>
           THEN /\ spc' = [spc EXCEPT ![s] = "follow"]
                /\ UNCHANGED <<cursor, got>>
           ELSE /\ spc' = [spc EXCEPT ![s] = "yield_replay"]
                /\ cursor' = Advance(cursor, s, Len(line))
                /\ got' = [got EXCEPT ![s] = Append(@, Frame(line))]
    /\ UNCHANGED <<loop, jobVars, stopEvt, stops, hbVars, logVars,
                   sid, where, connected, atOpen, appended, polls>>

\* (A follow loop that ends at the end of the log.)
BreakAtEnd == "closed"
\* `if not line`: time.sleep(1.0), f.seek(where), and `while True` goes round.
AfterEmptyRead == "follow"

\* One round of `while True`: where = f.tell(); line = f.readline(); then either
\* the yield, or time.sleep(1.0) and f.seek(where).
FollowRead(s) ==
    /\ spc[s] = "follow"
    /\ where' = [where EXCEPT ![s] = cursor[s]]
    /\ LET line == ReadLine(file[LogPath(sid[s])], cursor[s])
       IN  IF line = <<>>
           THEN /\ connected[s] \/ polls[s] < MaxPolls
                /\ polls' = [polls EXCEPT ![s] = IF connected[s] THEN @ ELSE @ + 1]
                /\ cursor' = [cursor EXCEPT ![s] = where'[s]]
                /\ spc' = [spc EXCEPT ![s] = AfterEmptyRead]
                /\ UNCHANGED got
           ELSE /\ spc' = [spc EXCEPT ![s] = "yield_follow"]
                /\ cursor' = Advance(cursor, s, Len(line))
                /\ got' = [got EXCEPT ![s] = Append(@, Frame(line))]
                /\ UNCHANGED polls
    /\ UNCHANGED <<loop, jobVars, stopEvt, stops, hbVars, logVars,
                   sid, connected, atOpen, appended>>

\* The event loop sends the yielded event and asks the generator for the next
\* one; when the consumer is gone it stops iterating instead.
Deliver(s) ==
    /\ loop = NoJob
    /\ spc[s] \in {"yield_replay", "yield_follow"}
    /\ spc' = [spc EXCEPT ![s] = IF ~connected[s] THEN "closed"
                                 ELSE IF @ = "yield_replay" THEN "replay" ELSE "follow"]
    /\ UNCHANGED <<loop, jobVars, stopEvt, stops, hbVars, logVars,
                   sid, cursor, where, got, connected, atOpen, appended, polls>>

\* The consumer closes the connection.
Disconnect(s) ==
    /\ connected[s]
    /\ spc[s] \in Streaming
    /\ connected' = [connected EXCEPT ![s] = FALSE]
    /\ UNCHANGED <<loop, jobVars, stopEvt, stops, hbVars, logVars,
                   spc, sid, cursor, where, got, atOpen, appended, polls>>

\* A read of the log fails: next(f) or f.readline() raises (OSError from the
\* read, UnicodeDecodeError).  event_stream has no try statement, so the
\* exception leaves the generator: the with block closes f and the response
\* ends there.
ReadError(s) ==
    /\ spc[s] \in {"replay", "follow"}
    /\ spc' = [spc EXCEPT ![s] = "failed"]
    /\ UNCHANGED <<loop, jobVars, stopEvt, stops, hbVars, logVars,
                   sid, cursor, where, got, connected, atOpen, appended, polls>>

SubStep(s) ==
    \/ \E id \in Ids : Request(s, id)
    \/ Dispatch(s)
    \/ ReplayRead(s)
    \/ FollowRead(s)
    \/ Deliver(s)
    \/ Disconnect(s)

\* ---------------------------------------------------------- specifications
\* One job, its handler and its heartbeat thread.
Next ==
    \E j \in {"j1"} : JobStep(j) \/ HbStep(j, MaxBeats, Snapshots)

Spec == Init /\ [][Next]_vars

\* One job and one subscription.
NextStream ==
    \/ \E j \in {"j1"} : JobStep(j) \/ HbStep(j, MaxStreamBeats, NoFault)
    \/ \E s \in {1} : SubStep(s)

SpecStream == Init /\ [][NextStream]_vars

\* One job and one subscription whose reads of the log can fail.
NextFault ==
    \/ NextStream
    \/ \E s \in {1} : ReadError(s)

SpecFault == Init /\ [][NextFault]_vars

\* One generate_text job on a host without cuda, and two subscriptions whose
\* consumers stay connected.
\* The subscriptions are alike, so the first request is taken to be that of
\* subscription 1.
NextTwo ==
    \/ \E j \in {"j1"} :
          \/ Begin(j, "text")
          \/ StartOpen(j)
          \/ StartWrite(j)
          \/ HbStart(j)
          \/ InitWorldGen(j)
          \/ Generate(j)
          \/ Save(j)
          \/ StopOnImportError(j)
          \/ LogImportError(j)
          \/ StopOnUnknown(j)
          \/ LogUnknown(j)
          \/ StopOnDone(j)
          \/ LogDone(j)
          \/ Except(j)
          \/ HbStep(j, MaxStreamBeats, NoCuda)
    \/ \E s \in Subs :
          \/ \E id \in Ids : (s = 1 \/ spc[1] # "idle") /\ Request(s, id)
          \/ Dispatch(s)
          \/ ReplayRead(s)
          \/ FollowRead(s)
                \/ Deliver(s)

SpecTwo == Init /\ [][NextTwo]_vars

\* Two jobs on a host without cuda, a generate_image job and a generate_text
\* job, and one subscription whose consumer stays connected.  The image job
\* awaits its upload while the text job runs, and the image job's heartbeat
\* thread writes beside either handler; the text job's thread is started and is
\* not scheduled.  The caller asks for a log once the text job has answered.
NextJobs ==
    \/ Begin("j1", "image")
    \/ Begin("j2", "text")
    \/ \E j \in Jobs :
          \/ StartOpen(j)
          \/ StartWrite(j)
          \/ HbStart(j)
          \/ Upload(j)
          \/ UploadResume(j)
          \/ Decode(j)
          \/ InitWorldGen(j)
          \/ Generate(j)
          \/ Save(j)
          \/ StopOnImportError(j)
          \/ LogImportError(j)
          \/ StopOnUnknown(j)
          \/ LogUnknown(j)
          \/ StopOnDone(j)
          \/ LogDone(j)
          \/ Except(j)
    \/ HbStep("j1", MaxStreamBeats, NoCuda)
    \/ \E s \in {1} :
          \/ \E id \in Ids : pc["j2"] = "returned" /\ Request(s, id)
          \/ Dispatch(s)
          \/ ReplayRead(s)
          \/ FollowRead(s)
          \/ Deliver(s)

SpecJobs == Init /\ [][NextJobs]_vars

TypeOK ==
    /\ loop \in Jobs \cup {NoJob}
    /\ \A j \in Jobs : stops[j] \in 0..1 /\ lateBeats[j] \in 0..MaxBeats
    /\ \A j \in Jobs : snapFails[j] \in 0..MaxBeats /\ hbpc[j] # "dead"
    /\ \A s \in Subs : cursor[s] <= (IF file[sid[s]] = NoFile THEN 0 ELSE Len(file[sid[s]]))

\* ------------------------------------------------------------ the claims
IsPrefix(a, b) == Len(a) <= Len(b) /\ SubSeq(b, 1, Len(a)) = a
IsSuffix(a, b) == Len(a) <= Len(b) /\ SubSeq(b, Len(b) - Len(a) + 1, Len(b)) = a
Drop(a, n) == SubSeq(a, n + 1, Len(a))
Last(a) == a[Len(a)]

\* C1: whenever a handler has returned, hb_stop.set() has been called exactly once
\* for the heartbeat it started, whatever the exit path.
C1_StopExactlyOnce ==
    \A j \in Jobs : pc[j] = "returned" => (hbpc[j] # "none" /\ stops[j] = 1)

\* f is an interleaving of the texts in a and the texts in b: every text whole,
\* each writer's texts in its own order, and nothing else.
RECURSIVE IsMerge(_, _, _)
IsMerge(f, a, b) ==
    IF a = <<>> /\ b = <<>> THEN f = <<>>
    ELSE \/ /\ a # <<>>
            /\ IsPrefix(Head(a), f)
            /\ IsMerge(Drop(f, Len(Head(a))), Tail(a), b)
         \/ /\ b # <<>>
            /\ IsPrefix(Head(b), f)
            /\ IsMerge(Drop(f, Len(Head(b))), a, Tail(b))

\* C2: the log of a job is an interleaving of what its handler and its heartbeat
\* thread appended: all of their lines, each intact, each writer's in call order.
C2_LogIsMergeOfWriters ==
    \A j \in Jobs : file[j] # NoFile => IsMerge(file[j], wrote[j].run, wrote[j].hb)

C2_Witness ==
    \E j \in Jobs :
        /\ pc[j] = "returned"
        /\ Len(wrote[j].run) >= 3
        /\ Len(wrote[j].hb) >= 2
        /\ \E n \in 1..Len(wrote[j].run) :
              IsSuffix(wrote[j].run[n] \o Last(wrote[j].hb), file[j])

\* A line that opens with the timestamp and DONE or ERROR:.
IsTerminalLine(line) ==
    \/ IsPrefix(<<TS, SP, "DONE">>, line)
    \/ IsPrefix(<<TS, SP, "ERROR:">>, line)
HasTerminalLine(content) ==
    LET L == Lines(content) IN \E i \in 1..Len(L) : IsTerminalLine(L[i])

\* C3: a handler that has returned has answered with the job's identifier, and
\* the job's log holds a DONE or an ERROR line.
C3_ReturnCarriesIdAndTerminalLine ==
    \A j \in Jobs :
        pc[j] = "returned" => (outcome[j].job_id = j /\ HasTerminalLine(file[j]))

\* The collaborator raised before anything was produced: START and ERROR only.
C3_Witness ==
    \E j \in Jobs :
        /\ pc[j] = "returned"
        /\ outcome[j].status = 500
        /\ wrote[j].run = <<LogText(StartMsg(kind[j])), ExceptText(exc[j])>>

\* C4: after a collaborator raised and the handler returned, the log ends with the
\* ERROR text holding the raised message, and the response is the failure with
\* the identifier of the log the START line is in.
C4_ErrorIsLastAfterRaise ==
    \A j \in Jobs :
        (pc[j] = "returned" /\ Last(wrote[j].run) = ExceptText(exc[j]))
            => /\ IsSuffix(ExceptText(exc[j]), file[j])
               /\ IsPrefix(LogText(StartMsg(kind[j])), file[j])
               /\ outcome[j].status = 500
               /\ outcome[j].job_id = j

\* A line as it stands in the file, less its line feed.
Chomp(line) ==
    IF line # <<>> /\ Last(line) = NL THEN SubSeq(line, 1, Len(line) - 1) ELSE line
\* The event that carries a line verbatim.
VerbatimFrame(line) == <<"data:", SP>> \o Chomp(line) \o <<NL, NL>>

Opened == Streaming \cup {"closed"}

\* C5: a subscription yields the k lines the log held when it was opened,
\* verbatim and in order, and then the lines appended since, none skipped and
\* none twice.
C5_ReplayThenFollowVerbatim ==
    \A s \in Subs :
        spc[s] \in Opened =>
            LET L == Lines(file[sid[s]])
                K == Lines(atOpen[s])
            IN  /\ Len(got[s]) <= Len(L)
                /\ \A i \in 1..Len(got[s]) :
                      got[s][i] = VerbatimFrame(IF i <= Len(K) THEN K[i] ELSE L[i])

\* C6: once hb_stop is set the heartbeat thread writes at most the one line it
\* was already about to write, and it leaves its loop only on seeing the event.
C6_AtMostOneBeatAfterStop ==
    \A j \in Jobs :
        /\ lateBeats[j] <= 1
        /\ hbpc[j] = "exit" => stopEvt[j] = "set"

C6_Witness ==
    \E j \in Jobs : lateBeats[j] = 1 /\ hbpc[j] = "exit"

\* The events g[i], g[i+1], ... are those of the lines of content that start at
\* offset pos, one event a line, in order.
RECURSIVE FramesFrom(_, _, _, _)
FramesFrom(g, i, content, pos) ==
    IF i > Len(g) THEN TRUE
    ELSE LET line == ReadLine(content, pos)
         IN  /\ line # <<>>
             /\ g[i] = Frame(line)
             /\ FramesFrom(g, i + 1, content, pos + Len(line))

\* What a subscription has yielded is the events of the first lines of the log,
\* in order, none left out and none twice.
FramedPrefix(s) == FramesFrom(got[s], 1, file[sid[s]], 0)

\* Every subscription, connected or not: what it has yielded is the log's lines
\* from the first on, each with its trailing whitespace stripped.
StreamsAreFramedPrefixes ==
    \A s \in Subs : spc[s] \in Opened => FramedPrefix(s)

\* C7: two subscriptions to one log see the same content: each has yielded the
\* events of the log's lines from the first on, without a gap or a repeat, so
\* what one has yielded is a prefix of what the other has.
C7_SubscribersAgree ==
    /\ \A s \in Subs : spc[s] \in Opened => FramedPrefix(s)
    /\ \A s, t \in Subs :
          (spc[s] \in Opened /\ spc[t] \in Opened /\ sid[s] = sid[t]) =>
              IsPrefix(got[s], got[t]) \/ IsPrefix(got[t], got[s])

\* Two subscriptions opened at different lengths of the log: one has replayed
\* it and then followed it to a line appended since, the other is still
\* replaying.
C7_Witness ==
    \E s, t \in Subs :
        /\ s # t
        /\ sid[s] = sid[t]
        /\ atOpen[s] # atOpen[t]
        /\ spc[s] = "yield_follow"
        /\ spc[t] \in {"replay", "yield_replay"}
        /\ Len(got[t]) >= 1
        /\ Len(got[s]) > Len(got[t])

\* C8: while generate_world of a job is running, a request for the job's log is
\* taken up and the events of a subscription to it are sent: the event loop is
\* not held by the job.
C8_ServedWhileGenerating ==
    \A s \in Subs :
        ( /\ sid[s] \in Jobs
          /\ spc[s] \in {"requested", "yield_replay", "yield_follow"}
          /\ pc[sid[s]] = "generate" )
            => loop = NoJob

\* While generate_world of a job is running no request for its log is taken up
\* and no event of a subscription to it is sent.
NothingServedWhileGenerating ==
    [][\A s \in Subs :
          (sid[s] \in Jobs /\ pc[sid[s]] = "generate" /\ pc'[sid[s]] = "generate") =>
              /\ spc[s] = "requested" => spc'[s] = "requested"
              /\ spc[s] \in {"yield_replay", "yield_follow"} => spc'[s] = spc[s]]_vars

\* C9: a request is answered 404 exactly when no append for its identifier had
\* been completed when the path was tested.
C9_NotFoundIffNothingAppended ==
    \A s \in Subs :
        spc[s] \notin {"idle", "requested"} =>
            (spc[s] = "notfound" <=> appended[s] = 0)

\* One request answered 404, one for a written log being streamed.
C9_Witness ==
    \E s, t \in Subs :
        /\ spc[s] = "notfound"
        /\ spc[t] \in Streaming
        /\ appended[t] >= 1

\* C10: after the consumer has gone, the subscription polls the log at most once
\* more.
C10_NoPollingAfterDisconnect ==
    \A s \in Subs : polls[s] <= 1

\* The texts that the _log calls made for an identifier have written, one text a
\* call.
AppendedTexts(id) ==
    IF id \in Jobs
    THEN {wrote[id].run[i] : i \in 1..Len(wrote[id].run)}
            \cup {wrote[id].hb[i] : i \in 1..Len(wrote[id].hb)}
    ELSE {}

\* C11: a subscription yields the lines in the order they were appended, and
\* every event it yields holds the whole of a line that one append wrote, never
\* a part of one.
C11_WholeLinesInOrder ==
    \A s \in Subs :
        spc[s] \in Opened =>
            /\ FramedPrefix(s)
            /\ \A i \in 1..Len(got[s]) :
                  \E text \in AppendedTexts(sid[s]) : got[s][i] = Frame(text)

\* C12: a job log is append-only: in every step of a runner, a heartbeat or a
\* subscription, the content a log had before the step is a prefix of the
\* content it has after it, and a log that exists keeps existing.
C12_AppendOnly ==
    [][\A id \in Ids :
          file[id] # NoFile => (file'[id] # NoFile /\ IsPrefix(file[id], file'[id]))]_vars

\* A log written by the runner and by the heartbeat while a subscription has
\* replayed lines of it and is reading on.
C12_Witness ==
    \E s \in Subs :
        /\ sid[s] \in Jobs
        /\ spc[s] \in Streaming
        /\ Len(got[s]) >= 2
        /\ Len(wrote[sid[s]].run) >= 2
        /\ Len(wrote[sid[s]].hb) >= 1
        /\ appended[s] < Appends(sid[s])

\* C13: a subscription has no natural end.  Whatever the job has done, its DONE
\* or ERROR line and its return included, a subscription whose consumer is
\* connected stays a running stream in every step; at the end of the log it can
\* poll again; and when it leaves the poll it is to yield the next line of the
\* log, the one appended since.
C13_NoNaturalEnd ==
    /\ [][\A s \in Subs :
             /\ (spc[s] \in Streaming /\ connected'[s]) => spc'[s] \in Streaming
             /\ (spc[s] = "follow" /\ spc'[s] # "follow") =>
                   /\ spc'[s] = "yield_follow"
                   /\ ReadLine(file[sid[s]], cursor[s]) # <<>>
                   /\ got'[s] = Append(got[s], Frame(ReadLine(file[sid[s]], cursor[s])))]_vars
    /\ [](\A s \in Subs : (spc[s] = "follow" /\ connected[s]) => ENABLED FollowRead(s))

\* The job has returned and its DONE line has been yielded; the subscription has
\* gone on and now yields the heartbeat line appended after it.
C13_Witness ==
    \E s \in Subs :
        /\ sid[s] \in Jobs
        /\ pc[sid[s]] = "returned"
        /\ connected[s]
        /\ spc[s] = "yield_follow"
        /\ Len(got[s]) >= 2
        /\ got[s][Len(got[s]) - 1] = Frame(LogText(DoneMsg))
        /\ \E mem \in BOOLEAN : Last(got[s]) = Frame(LogText(HeartbeatMsg(mem)))

\* C14: a tick of the heartbeat whose snapshot raises still appends the
\* elapsed-time line, without the memory figures, and goes on to the wait and
\* the loop test; the thread is never ended by it and the step changes nothing
\* of the handler.
C14_SnapshotFailureSwallowed ==
    /\ [][\A j \in Jobs :
             snapFails'[j] > snapFails[j] =>
                 /\ hbpc'[j] = "check"
                 /\ wrote'[j].hb = Append(wrote[j].hb, LogText(HeartbeatMsg(FALSE)))
                 /\ file'[j] = file[j] \o LogText(HeartbeatMsg(FALSE))
                 /\ UNCHANGED <<loop, jobVars, stopEvt>>]_vars
    /\ [](\A j \in Jobs : hbpc[j] # "dead")

\* The snapshot of the first tick raised and its line was written without the
\* figures; the second tick has run and has written a line with them.
C14_Witness ==
    \E j \in Jobs :
        /\ snapFails[j] = 1
        /\ wrote[j].hb = <<LogText(HeartbeatMsg(FALSE)), LogText(HeartbeatMsg(TRUE))>>

\* C15: once a subscription is established a failed read of the log does not
\* end the stream: no subscription is ever ended by a read error.
C15_ReadErrorRetried ==
    \A s \in Subs : spc[s] # "failed"

\* C16: the START line is the first line of a job's log: whatever a log holds, it
\* begins with the START line of its job, and the heartbeat thread exists only
\* once the handler has written that line.
C16_StartLineFirst ==
    \A j \in Jobs :
        /\ (file[j] # NoFile /\ file[j] # <<>>) =>
               IsPrefix(LogText(StartMsg(kind[j])), file[j])
        /\ hbpc[j] # "none" =>
               (wrote[j].run # <<>> /\ wrote[j].run[1] = LogText(StartMsg(kind[j])))

\* The heartbeat thread wrote as soon as it was started: its line is the second
\* of the log, behind the START line and ahead of every other line of the handler.
C16_Witness ==
    \E j \in Jobs, mem \in BOOLEAN :
        /\ Len(wrote[j].run) >= 2
        /\ IsPrefix(LogText(StartMsg(kind[j])) \o LogText(HeartbeatMsg(mem)), file[j])

\* C17 as stated: after a successful run the DONE line is the last line of the
\* job's log.
C17_DoneIsLast ==
    \A j \in Jobs :
        (pc[j] = "returned" /\ outcome[j].status = 200) =>
            IsSuffix(LogText(DoneMsg), file[j])

\* C17, amended: after a successful run the DONE line is followed by at most one
\* line, a heartbeat line: that of the tick that had passed the loop test when
\* hb_stop was set.
C17_AtMostOneBeatAfterDone ==
    \A j \in Jobs :
        (pc[j] = "returned" /\ outcome[j].status = 200) =>
            \/ IsSuffix(LogText(DoneMsg), file[j])
            \/ \E mem \in BOOLEAN :
                  IsSuffix(LogText(DoneMsg) \o LogText(HeartbeatMsg(mem)), file[j])

\* A successful run whose heartbeat thread has ended after writing one line
\* behind the DONE line.
C17_Witness ==
    \E j \in Jobs, mem \in BOOLEAN :
        /\ pc[j] = "returned"
        /\ outcome[j].status = 200
        /\ hbpc[j] = "exit"
        /\ IsSuffix(LogText(DoneMsg) \o LogText(HeartbeatMsg(mem)), file[j])

\* The number of lines of a log that open with the timestamp and DONE or ERROR:.
TerminalLines(content) ==
    LET L == Lines(content)
    IN  Cardinality({i \in 1..Len(L) : IsTerminalLine(L[i])})

\* C18: a job's log never holds more than one terminal line, and when the
\* handler has returned it holds exactly one: DONE when the answer is 200, ERROR
\* when it is 500.
C18_OneTerminalLine ==
    \A j \in Jobs :
        /\ TerminalLines(file[j]) <= 1
        /\ pc[j] = "returned" =>
              LET L == Lines(file[j])
              IN  /\ TerminalLines(file[j]) = 1
                  /\ \E i \in 1..Len(L) :
                        IsPrefix(<<TS, SP>> \o (IF outcome[j].status = 200
                                                THEN <<"DONE">> ELSE <<"ERROR:">>), L[i])
        /\ pc[j] # "returned" => TerminalLines(file[j]) = 0

\* A handler that has returned through the outer except, its heartbeat thread
\* still writing behind the one ERROR line.
C18_Witness ==
    \E j \in Jobs :
        /\ pc[j] = "returned"
        /\ outcome[j].status = 500
        /\ stopEvt[j] = "clear"
        /\ TerminalLines(file[j]) = 1
        /\ Len(wrote[j].hb) >= 1
        /\ IsSuffix(Last(wrote[j].hb), file[j])

\* The lines of the texts that the handler and the heartbeat thread of a job
\* have appended.
OwnLines(j) ==
    UNION {LET L == Lines(text) IN {L[i] : i \in 1..Len(L)} : text \in AppendedTexts(j)}

\* C19: job logs are isolated.  The log of a job is an interleaving of what its
\* own handler and its own heartbeat thread appended, with no line of another
\* job in it; no file is written for any other identifier; and the events of a
\* subscription are the lines of the log of the identifier it named, every one
\* of them a line of that job's own.
C19_LogsIsolated ==
    /\ \A j \in Jobs :
          file[j] # NoFile => IsMerge(file[j], wrote[j].run, wrote[j].hb)
    /\ file[Bogus] = NoFile
    /\ \A s \in Subs :
          spc[s] \in Opened =>
              /\ sid[s] \in Jobs
              /\ FramedPrefix(s)
              /\ LET own == {Frame(line) : line \in OwnLines(sid[s])}
                 IN  \A i \in 1..Len(got[s]) : got[s][i] \in own

\* The image job awaits its upload, its heartbeat thread has written, the text
\* job has written its lines meanwhile, and a subscription to one of the two has
\* yielded two events.
C19_Witness ==
    \E s \in Subs, j, k \in Jobs :
        /\ j # k
        /\ pc[j] = "upload_wait"
        /\ Len(wrote[j].hb) >= 1
        /\ Len(wrote[k].run) >= 2
        /\ file[j] # file[k]
        /\ sid[s] \in {j, k}
        /\ spc[s] \in Streaming
        /\ Len(got[s]) >= 2

====
